---- MODULE Spec2Model ----
(***************************************************************************)
(* Invitation service: the invites table (database.ts), the chain oracle   *)
(* adapter (contract.ts) and the three HTTP handlers of routes/invites.ts  *)
(* (addInvite in its public and its admin variant, getInvite, checkInvite).*)
(*                                                                         *)
(* Node runs one handler at a time and better-sqlite3 is synchronous, so a *)
(* handler is atomic up to its `await checkInviteOnChain(...)`; every      *)
(* handler that awaits is split there into a Start and a Resume action and *)
(* other requests may run in between.  Requests carry no identity, so the  *)
(* suspended handlers form a bag.                                          *)
(***************************************************************************)
EXTENDS Integers, Sequences, FiniteSets, Bags, TLC

\* ---------------------------------------------------------------- bounds
\* number of distinct well-formed secrets the clients send
MaxInvites == 2
\* number of distinct well-formed addresses
NumAddr == 2
\* datetime('now') takes the values 0..MaxTime (one unit = one second)
MaxTime == 1
\* number of requests that can be suspended at an await at the same time
MaxInFlight == 2

\* 0 stands for a missing or malformed field of a request body
Secrets == 1..MaxInvites
Addresses == 1..NumAddr
SecretIn == 0..MaxInvites
AddressIn == 0..NumAddr

\* '0x0000000000000000000000000000000000000000'
ZeroAddress == 0

\* enum InviteStatus
NONE == "none"
PENDING == "pending"
USED == "used"

VARIABLES
  store,   \* the invites table: sequence of rows, row i has id i
  now,     \* the value datetime('now') yields
  chain,   \* ReferralContract.accounts(a).claimed for every address a
  inflight, \* bag of the handlers suspended at their await, each with the
           \* await it is at (pc) and its local variables
  out,     \* the HTTP response produced by the last step (Quiet if none)
  dispensed \* history: the ids in the order they went from none to pending

vars == <<store, now, chain, inflight, out, dispensed>>

\* ---------------------------------------------------------------- rows
\* `undefined` / `null` of the handlers
Null == [id |-> 0, secret |-> 0, signer |-> 0, status |-> "null", updateDate |-> 0]

Min(S) == CHOOSE x \in S : \A y \in S : x <= y

Ids(db) == 1..Len(db)

RowsWithStatus(db, st) == {i \in Ids(db) : db[i].status = st}

\* SELECT * FROM invites WHERE id = ?  (the callers pass ids of existing rows)
getInviteById(db, id) == IF id \in Ids(db) THEN db[id] ELSE Null

\* SELECT * FROM invites WHERE secret = ?  ;  row || null
getInviteBySecret(db, secret) ==
  IF \E i \in Ids(db) : db[i].secret = secret
  THEN db[CHOOSE i \in Ids(db) : db[i].secret = secret]
  ELSE Null

\* seeded fault: the UPDATE without its WHERE clause
updateInviteStatus_NoWhere(db, id, status, t) ==
  [i \in Ids(db) |-> [db[i] EXCEPT !.status = status, !.updateDate = t]]

\* UPDATE invites SET status = ?, updateDate = datetime('now') WHERE id = ?
updateInviteStatus(db, id, status, t) ==
  [i \in Ids(db) |->
     IF db[i].id = id THEN [db[i] EXCEPT !.status = status, !.updateDate = t]
     ELSE db[i]]

\* seeded fault: the UPDATE of markInviteAsUsed matches no row
markInviteAsUsed_Never(db, secret, t) == [db |-> db, ret |-> FALSE]

\* markInviteAsUsed(secret): unconditional overwrite of the row found
markInviteAsUsed(db, secret, t) ==
  LET invite == getInviteBySecret(db, secret)
  IN IF invite = Null THEN [db |-> db, ret |-> FALSE]
     ELSE [db |-> updateInviteStatus(db, invite.id, USED, t), ret |-> TRUE]

\* seeded fault: ORDER BY id DESC
FirstById_Desc(db, S) == CHOOSE x \in S : \A y \in S : x >= y

\* ORDER BY id ASC LIMIT 1
FirstById(db, S) == Min(S)

\* seeded fault: ORDER BY updateDate DESC
OldestByUpdateDate_Desc(db, S) ==
  CHOOSE i \in S : \A j \in S :
     \/ db[i].updateDate > db[j].updateDate
     \/ (db[i].updateDate = db[j].updateDate /\ i <= j)

\* ORDER BY updateDate ASC LIMIT 1.  Rows with equal updateDate come out in
\* the order SQLite scans them (idx_status, i.e. ascending rowid) and the
\* top-1 sorter keeps the first of them.
OldestByUpdateDate(db, S) ==
  CHOOSE i \in S : \A j \in S :
     \/ db[i].updateDate < db[j].updateDate
     \/ (db[i].updateDate = db[j].updateDate /\ i <= j)

\* seeded fault: the first query takes every row that is not pending
getNextInvite_Reuse(db, t) ==
  LET noneRows == RowsWithStatus(db, NONE) \cup RowsWithStatus(db, USED)
      pendingRows == RowsWithStatus(db, PENDING)
  IN IF noneRows # {}
     THEN LET id == Min(noneRows)
              db2 == [db EXCEPT ![id].status = PENDING, ![id].updateDate = t]
          IN [db |-> db2, ret |-> db2[id], branch |-> 1]
     ELSE IF pendingRows = {}
          THEN [db |-> db, ret |-> Null, branch |-> 3]
          ELSE [db |-> db, ret |-> db[OldestByUpdateDate(db, pendingRows)], branch |-> 2]

\* seeded fault: without the fall back to the pending rows
getNextInvite_NoFallback(db, t) ==
  LET noneRows == RowsWithStatus(db, NONE)
  IN IF noneRows # {}
     THEN LET id == FirstById(db, noneRows)
              db2 == updateInviteStatus(db, id, PENDING, t)
          IN [db |-> db2, ret |-> getInviteById(db2, id), branch |-> 1]
     ELSE [db |-> db, ret |-> Null, branch |-> 3]

\* getNextInvite(): prefer 'none', fall back to the oldest 'pending'.
\* branch is 1, 2 or 3 (nothing found); it is not part of the code's result.
getNextInvite(db, t) ==
  LET noneRows == RowsWithStatus(db, NONE)
      pendingRows == RowsWithStatus(db, PENDING)
  IN IF noneRows # {}
     THEN LET id == FirstById(db, noneRows)
              db2 == updateInviteStatus(db, id, PENDING, t)
          IN [db |-> db2, ret |-> getInviteById(db2, id), branch |-> 1]
     ELSE IF pendingRows = {}
          THEN [db |-> db, ret |-> Null, branch |-> 3]
          ELSE [db |-> db, ret |-> db[OldestByUpdateDate(db, pendingRows)], branch |-> 2]

\* seeded fault: INSERT OR REPLACE, a stored secret gets the new signer
addInvite_Replace(db, secret, signer, t) ==
  IF \E i \in Ids(db) : db[i].secret = secret
  THEN LET i == CHOOSE i \in Ids(db) : db[i].secret = secret
           db2 == [db EXCEPT ![i].signer = signer, ![i].updateDate = t]
       IN [db |-> db2, threw |-> FALSE, ret |-> db2[i]]
  ELSE LET row == [id |-> Len(db) + 1, secret |-> secret, signer |-> signer,
                   status |-> NONE, updateDate |-> t]
       IN [db |-> Append(db, row), threw |-> FALSE, ret |-> row]

\* seeded fault: the secret column without its UNIQUE constraint
addInvite_NoUnique(db, secret, signer, t) ==
  LET row == [id |-> Len(db) + 1, secret |-> secret, signer |-> signer,
              status |-> NONE, updateDate |-> t]
  IN [db |-> Append(db, row), threw |-> FALSE, ret |-> row]

\* INSERT INTO invites ...: secret is UNIQUE, id is AUTOINCREMENT; a failed
\* insert throws 'UNIQUE constraint failed' and changes nothing.
addInvite(db, secret, signer, t) ==
  IF \E i \in Ids(db) : db[i].secret = secret
  THEN [db |-> db, threw |-> TRUE, ret |-> Null]
  ELSE LET row == [id |-> Len(db) + 1, secret |-> secret, signer |-> signer,
                   status |-> NONE, updateDate |-> t]
           db2 == Append(db, row)
       IN [db |-> db2, threw |-> FALSE, ret |-> getInviteById(db2, row.id)]

\* seeded fault: the third count query is given the status used again
getInviteStats_UsedTwice(db) ==
  LET total == Len(db)
      used == Cardinality(RowsWithStatus(db, USED))
      pending == Cardinality(RowsWithStatus(db, USED))
  IN [total |-> total, used |-> used, pending |-> pending,
      available |-> total - used - pending]

\* getInviteStats(): three COUNT(*) queries and one subtraction
getInviteStats(db) ==
  LET total == Len(db)
      used == Cardinality(RowsWithStatus(db, USED))
      pending == Cardinality(RowsWithStatus(db, PENDING))
  IN [total |-> total, used |-> used, pending |-> pending,
      available |-> total - used - pending]

\* ---------------------------------------------------------------- oracle
\* what client.call + decodeAbiParameters can yield for an address:
\* an exception (network failure, revert, malformed data), no data, or the
\* pair (account, claimed) of the contract; the account bound to an address
\* is the zero address or a non-zero one (written as the address itself)
RpcOutcomes(a) ==
  { [kind |-> "error", account |-> ZeroAddress, claimed |-> FALSE],
    [kind |-> "nodata", account |-> ZeroAddress, claimed |-> FALSE],
    [kind |-> "data", account |-> ZeroAddress, claimed |-> chain[a]],
    [kind |-> "data", account |-> a, claimed |-> chain[a]] }

\* seeded fault: the catch block passes the error on
checkInviteOnChain_Rethrow(raw) ==
  IF raw.kind = "error"
  THEN [threw |-> TRUE, account |-> ZeroAddress, claimed |-> FALSE]
  ELSE [threw |-> FALSE, account |-> raw.account, claimed |-> raw.claimed]

\* seeded fault: the catch block answers claimed: true
checkInviteOnChain_ClaimedOnError(raw) ==
  IF raw.kind = "error"
  THEN [threw |-> FALSE, account |-> ZeroAddress, claimed |-> TRUE]
  ELSE [threw |-> FALSE, account |-> raw.account, claimed |-> raw.claimed]

\* checkInviteOnChain: the try/catch turns every failure into
\* {account: zero, claimed: false}; it never rejects (threw is always FALSE)
checkInviteOnChain(raw) ==
  IF raw.kind = "error"
  THEN [threw |-> FALSE, account |-> ZeroAddress, claimed |-> FALSE]
  ELSE IF raw.kind = "nodata"
       THEN [threw |-> FALSE, account |-> ZeroAddress, claimed |-> FALSE]
       ELSE [threw |-> FALSE, account |-> raw.account, claimed |-> raw.claimed]

\* contract.ts exports it, its body is not in the repository's sources:
\* the secret is a private key and the address is derived from it
AddressOf(secret) == ((secret - 1) % NumAddr) + 1

verifySecretMatchesAddress(secret, address) == address = AddressOf(secret)

\* ---------------------------------------------------------------- responses
\* res.status(code).json({ success, isUsed, invite }) of the handler `op`
Resp(op, code, isUsed, invite) ==
  [op |-> op, code |-> code, isUsed |-> isUsed, invite |-> invite]

\* res.status(code).json({ error })
Fail(op, code) == Resp(op, code, FALSE, Null)

\* no response (the handler is suspended, or the step is not a handler's)
Quiet == Resp("none", 0, FALSE, Null)

\* a handler suspended at `await checkInviteOnChain(...)` with its locals;
\* branch (the getNextInvite branch that selected invite) is not a local of
\* the code, it only labels the suspended handler
Suspended(at, invite, secret, address, branch) ==
  [pc |-> at, invite |-> invite, secret |-> secret, address |-> address,
   branch |-> branch]

NoSusp == Suspended("done", Null, 0, 0, 0)

\* What one run of a handler does: the table it leaves, its response, and
\* the suspended handler it leaves behind (NoSusp when it has ended)
Ended(db, resp) == [db |-> db, resp |-> resp, susp |-> NoSusp]

Awaiting(db, c) == [db |-> db, resp |-> Quiet, susp |-> c]

\* ---------------------------------------------------------------- addInvite
\* authMiddleware: the x-api-key header must equal API_KEY
authMiddleware(apiKeyOk) == apiKeyOk

\* POST /addInvite, admin variant (auth required, no chain check, no await)
adminAddInvite(apiKeyOk, secret, signer, db, t) ==
  LET r == addInvite(db, secret, signer, t)
  IN IF ~authMiddleware(apiKeyOk) THEN Ended(db, Fail("adminAddInvite", 401))
     ELSE IF secret = 0 THEN Ended(db, Fail("adminAddInvite", 400))
     ELSE IF signer = 0 THEN Ended(db, Fail("adminAddInvite", 400))
     ELSE IF r.threw THEN Ended(r.db, Fail("adminAddInvite", 409))
     ELSE Ended(r.db, Resp("adminAddInvite", 201, FALSE, r.ret))

\* POST /addInvite, public variant, up to `await checkInviteOnChain(address)`
postAddInvite(secret, address, db) ==
  IF secret = 0 THEN Ended(db, Fail("addInvite", 400))
  ELSE IF address = 0 THEN Ended(db, Fail("addInvite", 400))
  ELSE IF ~verifySecretMatchesAddress(secret, address)
  THEN Ended(db, Fail("addInvite", 400))
  ELSE Awaiting(db, Suspended("add_await", Null, secret, address, 0))

\* seeded fault: without the zero-account rejection
postAddInviteResumed_NoZeroCheck(c, raw, db, t) ==
  LET chainData == checkInviteOnChain(raw)
      r == addInvite(db, c.secret, c.address, t)
  IN IF chainData.threw THEN Ended(db, Fail("addInvite", 500))
     ELSE IF chainData.claimed THEN Ended(db, Fail("addInvite", 400))
     ELSE IF r.threw THEN Ended(r.db, Fail("addInvite", 409))
     ELSE Ended(r.db, Resp("addInvite", 201, FALSE, r.ret))

\* POST /addInvite, public variant, from the oracle's answer on
postAddInviteResumed(c, raw, db, t) ==
  LET chainData == checkInviteOnChain(raw)
      r == addInvite(db, c.secret, c.address, t)
  IN IF chainData.threw THEN Ended(db, Fail("addInvite", 500))
     ELSE IF chainData.account = ZeroAddress THEN Ended(db, Fail("addInvite", 400))
     ELSE IF chainData.claimed THEN Ended(db, Fail("addInvite", 400))
     ELSE IF r.threw THEN Ended(r.db, Fail("addInvite", 409))
     ELSE Ended(r.db, Resp("addInvite", 201, FALSE, r.ret))

\* ---------------------------------------------------------------- getInvite
\* GET /getInvite up to `await checkInviteOnChain(invite.signer)`
getInvite(db, t) ==
  LET r == getNextInvite(db, t)
  IN IF r.ret = Null THEN Ended(r.db, Fail("getInvite", 404))
     ELSE IF r.ret.status = PENDING
     THEN Awaiting(r.db, Suspended("get_await", r.ret, 0, 0, r.branch))
     ELSE Ended(r.db, Resp("getInvite", 200, FALSE, r.ret))

\* GET /getInvite from the oracle's answer on: a claimed invite is marked
\* used and getNextInvite is called once more, its result is returned as is
getInviteResumed(c, raw, db, t) ==
  LET chainData == checkInviteOnChain(raw)
      invite == c.invite
      marked == markInviteAsUsed(db, invite.secret, t)
      next == getNextInvite(marked.db, t)
  IN IF chainData.threw THEN Ended(db, Resp("getInvite", 200, FALSE, invite))
     ELSE IF chainData.claimed
     THEN IF next.ret = Null THEN Ended(next.db, Fail("getInvite", 404))
          ELSE Ended(next.db, Resp("getInvite", 200, FALSE, next.ret))
     ELSE Ended(db, Resp("getInvite", 200, FALSE, invite))

\* ---------------------------------------------------------------- checkInvite
\* seeded fault: without the `invite.status === 'used'` short circuit
checkInvite_NoShortCircuit(secret, address, db) ==
  LET invite == getInviteBySecret(db, secret)
  IN IF secret = 0 THEN Ended(db, Fail("checkInvite", 400))
     ELSE IF address = 0 THEN Ended(db, Fail("checkInvite", 400))
     ELSE IF invite = Null THEN Ended(db, Fail("checkInvite", 404))
     ELSE Awaiting(db, Suspended("check_await", invite, secret, address, 0))

\* POST /checkInvite up to `await checkInviteOnChain(address)`
checkInvite(secret, address, db) ==
  LET invite == getInviteBySecret(db, secret)
  IN IF secret = 0 THEN Ended(db, Fail("checkInvite", 400))
     ELSE IF address = 0 THEN Ended(db, Fail("checkInvite", 400))
     ELSE IF invite = Null THEN Ended(db, Fail("checkInvite", 404))
     ELSE IF invite.status = USED
     THEN Ended(db, Resp("checkInvite", 200, TRUE, invite))
     ELSE Awaiting(db, Suspended("check_await", invite, secret, address, 0))

\* POST /checkInvite from the oracle's answer on; the not-claimed response
\* is built from the row read before the await
checkInviteResumed(c, raw, db, t) ==
  LET chainData == checkInviteOnChain(raw)
      invite == c.invite
      marked == markInviteAsUsed(db, c.secret, t)
      updatedInvite == getInviteBySecret(marked.db, c.secret)
  IN IF chainData.threw THEN Ended(db, Fail("checkInvite", 500))
     ELSE IF chainData.claimed
     THEN Ended(marked.db, Resp("checkInvite", 200, TRUE,
                                [updatedInvite EXCEPT !.status = USED]))
     ELSE Ended(db, Resp("checkInvite", 200, FALSE, invite))

\* ---------------------------------------------------------------- health
\* GET /health: answers { status: 'ok', invites: getInviteStats() }
health(db) ==
  [db |-> db, resp |-> Resp("health", 200, FALSE, Null), susp |-> NoSusp,
   invites |-> getInviteStats(db)]

\* ---------------------------------------------------------------- system
Init ==
  /\ store = <<>>
  /\ now = 0
  /\ chain = [a \in Addresses |-> FALSE]
  /\ inflight = EmptyBag
  /\ out = Quiet
  /\ dispensed = <<>>

\* the server takes a new request while fewer than MaxInFlight are suspended
Accepting == BagCardinality(inflight) < MaxInFlight

\* the rows of db2 that are pending and were not pending in db
NewlyPending(db, db2) ==
  {i \in Ids(db2) : /\ db2[i].status = PENDING
                    /\ (i \in Ids(db) => db[i].status # PENDING)}

Record(db, db2) ==
  dispensed' = IF NewlyPending(db, db2) = {} THEN dispensed
               ELSE Append(dispensed, Min(NewlyPending(db, db2)))

\* a handler runs from the request to its response or to its await
Start(h) ==
  /\ store' = h.db
  /\ Record(store, h.db)
  /\ out' = h.resp
  /\ inflight' = IF h.susp = NoSusp THEN inflight
                 ELSE inflight (+) SetToBag({h.susp})
  /\ UNCHANGED <<now, chain>>

\* the suspended handler c runs from its await to its response
Finish(c, h) ==
  /\ store' = h.db
  /\ Record(store, h.db)
  /\ out' = h.resp
  /\ inflight' = inflight (-) SetToBag({c})
  /\ UNCHANGED <<now, chain>>

Tick ==
  /\ now < MaxTime
  /\ now' = now + 1
  /\ out' = Quiet
  /\ UNCHANGED <<store, chain, inflight, dispensed>>

\* the address claims its referral slot on the contract
ChainClaim(a) ==
  /\ ~chain[a]
  /\ chain' = [chain EXCEPT ![a] = TRUE]
  /\ out' = Quiet
  /\ UNCHANGED <<store, now, inflight, dispensed>>

AdminAddInvite(apiKeyOk, secret, signer) ==
  /\ Start(adminAddInvite(apiKeyOk, secret, signer, store, now))

AddInviteStart(secret, address) ==
  /\ Accepting
  /\ Start(postAddInvite(secret, address, store))

AddInviteResume(c) ==
  /\ c.pc = "add_await"
  /\ \E raw \in RpcOutcomes(c.address) :
       Finish(c, postAddInviteResumed(c, raw, store, now))

GetInviteStart ==
  /\ Accepting
  /\ Start(getInvite(store, now))

GetInviteResume(c) ==
  /\ c.pc = "get_await"
  /\ \E raw \in RpcOutcomes(c.invite.signer) :
       Finish(c, getInviteResumed(c, raw, store, now))

CheckInviteStart(secret, address) ==
  /\ Accepting
  /\ Start(checkInvite(secret, address, store))

CheckInviteResume(c) ==
  /\ c.pc = "check_await"
  /\ \E raw \in RpcOutcomes(c.address) :
       Finish(c, checkInviteResumed(c, raw, store, now))

Health ==
  /\ Start(health(store))

Next ==
  \/ Tick
  \/ \E a \in Addresses : ChainClaim(a)
  \/ AdminAddInvite(FALSE, 0, 0)   \* without the API key the body is not read
  \/ \E s \in SecretIn, a \in AddressIn : AdminAddInvite(TRUE, s, a)
  \/ \E s \in SecretIn, a \in AddressIn : AddInviteStart(s, a)
  \/ \E c \in BagToSet(inflight) : AddInviteResume(c)
  \/ GetInviteStart
  \/ \E c \in BagToSet(inflight) : GetInviteResume(c)
  \/ \E s \in SecretIn, a \in AddressIn : CheckInviteStart(s, a)
  \/ \E c \in BagToSet(inflight) : CheckInviteResume(c)
  \/ Health

Spec == Init /\ [][Next]_vars

TypeOK ==
  /\ now \in 0..MaxTime
  /\ \A i \in Ids(store) : store[i].id = i /\ store[i].status \in {NONE, PENDING, USED}

\* ---------------------------------------------------------------- properties
\* The claims about one run of a handler are stated over every run the
\* current state allows: every request that can arrive, every suspended
\* handler and every outcome the oracle call can have now.
Waiting(at) == {c \in BagToSet(inflight) : c.pc = at}

StoredSecrets == {store[i].secret : i \in Ids(store)}

\* db2 differs from db at most in row id
OnlyRowChanged(db, db2, id) ==
  /\ Len(db2) = Len(db)
  /\ \A j \in Ids(db) : j # id => db2[j] = db[j]

Rank(status) == IF status = NONE THEN 0 ELSE IF status = PENDING THEN 1 ELSE 2

\* C1, selection: with a none row in the table, getInvite picks the none
\* row of smallest id, writes pending into it and nothing else, and goes on
\* with exactly that row, whatever pending rows exist.
C1_Selects ==
  RowsWithStatus(store, NONE) # {} =>
    LET id == Min(RowsWithStatus(store, NONE))
        h == getInvite(store, now)
    IN /\ h.susp.pc = "get_await"
       /\ h.susp.branch = 1
       /\ h.susp.invite = [store[id] EXCEPT !.status = PENDING, !.updateDate = now]
       /\ h.db[id] = h.susp.invite
       /\ OnlyRowChanged(store, h.db, id)

\* C1 as stated: the dispense that took a none row returns exactly that row
\* for every oracle answer.
C1_ReturnsSelectedAlways ==
  /\ C1_Selects
  /\ \A c \in Waiting("get_await") : \A raw \in RpcOutcomes(c.invite.signer) :
       c.branch = 1 =>
         getInviteResumed(c, raw, store, now).resp = Resp("getInvite", 200, FALSE, c.invite)

\* C1 amended: the dispense that took a none row returns exactly that row
\* unless the oracle reports its signer claimed; then the row is marked used
\* and the response is a replacement row or 404, never that row.
C1_ReturnsSelectedUnlessClaimed ==
  /\ C1_Selects
  /\ \A c \in Waiting("get_await") : \A raw \in RpcOutcomes(c.invite.signer) :
       c.branch = 1 =>
         LET h == getInviteResumed(c, raw, store, now)
         IN IF raw.kind = "data" /\ raw.claimed
            THEN /\ h.db[c.invite.id].status = USED
                 /\ h.resp.invite.id # c.invite.id
                 /\ h.resp.code \in {200, 404}
            ELSE /\ h.resp = Resp("getInvite", 200, FALSE, c.invite)
                 /\ h.db = store

\* a dispense took a none row while another row was pending, and the oracle
\* now reports the signer of the row it took as claimed
C1_Witness ==
  \E c \in Waiting("get_await") :
     /\ c.branch = 1
     /\ chain[c.invite.signer]
     /\ \E j \in RowsWithStatus(store, PENDING) : j # c.invite.id

\* C2: no step removes a row, moves a row from used to pending or none, or
\* from pending to none.
C2_StatusForwardOnly ==
  [][/\ Len(store') >= Len(store)
     /\ \A i \in Ids(store) : Rank(store'[i].status) >= Rank(store[i].status)]_vars

\* a used row and a pending row exist while a dispense and a checkInvite are
\* both suspended
C2_Witness ==
  /\ RowsWithStatus(store, USED) # {}
  /\ RowsWithStatus(store, PENDING) # {}
  /\ Waiting("get_await") # {}
  /\ Waiting("check_await") # {}

\* C3: when the oracle answers, the row a dispense returns is not one whose
\* signer the contract holds as claimed.
C3_NeverReturnsClaimed ==
  \A c \in Waiting("get_await") : \A raw \in RpcOutcomes(c.invite.signer) :
     LET h == getInviteResumed(c, raw, store, now)
     IN (raw.kind = "data" /\ h.resp.code = 200) => ~chain[h.resp.invite.signer]

\* C4: an oracle call that fails during checkInvite gives a failure
\* response and leaves the table as it is.
C4_ConfirmFailsClosed ==
  \A c \in Waiting("check_await") : \A raw \in RpcOutcomes(c.address) :
     LET h == checkInviteResumed(c, raw, store, now)
     IN raw.kind = "error" => (h.resp.code = 500 /\ h.db = store)

\* C5: an oracle call that fails during getInvite gives the selected row as
\* it was selected, status 200, and leaves the table as it is.
C5_DispenseFailsOpen ==
  \A c \in Waiting("get_await") : \A raw \in RpcOutcomes(c.invite.signer) :
     LET h == getInviteResumed(c, raw, store, now)
     IN raw.kind = "error" =>
          /\ h.resp = Resp("getInvite", 200, FALSE, c.invite)
          /\ c.invite.status = PENDING
          /\ h.db = store

\* a dispense is suspended on a pending row whose signer is claimed on the
\* contract: only the failure of the call keeps it from being marked used
C5_Witness ==
  \E c \in Waiting("get_await") :
     /\ chain[c.invite.signer]
     /\ store[c.invite.id] = c.invite

\* C6: no two rows share a secret, and an addInvite (either variant) that
\* reaches the insert with a stored secret answers 409 and leaves the table
\* as it is.
C6_SecretUnique ==
  /\ \A i, j \in Ids(store) : store[i].secret = store[j].secret => i = j
  /\ \A s \in StoredSecrets : \A a \in Addresses :
       adminAddInvite(TRUE, s, a, store, now) = Ended(store, Fail("adminAddInvite", 409))
  /\ \A c \in Waiting("add_await") : \A raw \in RpcOutcomes(c.address) :
       LET h == postAddInviteResumed(c, raw, store, now)
       IN c.secret \in StoredSecrets =>
            /\ h.db = store
            /\ h.resp.code \in {400, 409}
            /\ (raw.kind = "data" /\ raw.account # ZeroAddress /\ ~raw.claimed)
                 => h.resp = Fail("addInvite", 409)

\* a public addInvite is suspended with a secret that was stored meanwhile,
\* and the last response is a 409
C6_Witness ==
  /\ \E c \in Waiting("add_await") : c.secret \in StoredSecrets /\ ~chain[c.address]
  /\ out.code = 409

\* the rows still pending, in the order they became pending
StillPending == SelectSeq(dispensed, LAMBDA i : store[i].status = PENDING)

\* C7: with no none row and a pending one, getInvite changes nothing and
\* picks the pending row of oldest updateDate, which is the one that became
\* pending first; when the oracle does not report it claimed the response is
\* that row and the table stays as it is.
C7_OldestPending ==
  /\ (RowsWithStatus(store, NONE) = {} /\ RowsWithStatus(store, PENDING) # {}) =>
       LET h == getInvite(store, now)
           sel == h.susp.invite
       IN /\ h.db = store
          /\ h.susp.pc = "get_await"
          /\ h.susp.branch = 2
          /\ sel.id \in RowsWithStatus(store, PENDING)
          /\ sel = store[sel.id]
          /\ \A j \in RowsWithStatus(store, PENDING) : sel.updateDate <= store[j].updateDate
          /\ sel.id = Head(StillPending)
          /\ \A raw \in RpcOutcomes(sel.signer) :
               ~(raw.kind = "data" /\ raw.claimed) =>
                  getInviteResumed(h.susp, raw, store, now)
                    = Ended(store, Resp("getInvite", 200, FALSE, sel))
  /\ \A c \in Waiting("get_await") : \A raw \in RpcOutcomes(c.invite.signer) :
       ~(raw.kind = "data" /\ raw.claimed) =>
          getInviteResumed(c, raw, store, now)
            = Ended(store, Resp("getInvite", 200, FALSE, c.invite))

\* A then B were issued and dispensed, and a third dispense picked A, which
\* is unclaimed, while B became pending in a later second
C7_Witness ==
  /\ Len(store) = 2
  /\ dispensed = <<1, 2>>
  /\ store[1].status = PENDING /\ store[2].status = PENDING
  /\ store[1].updateDate < store[2].updateDate
  /\ \E c \in Waiting("get_await") :
       c.branch = 2 /\ c.invite = store[1] /\ ~chain[c.invite.signer]

\* C8: when the oracle reports the address claimed, checkInvite leaves the
\* row of the secret used, answers 200 with isUsed and status used for that
\* row, and changes no other row.
C8_ClaimedMarksUsed ==
  \A c \in Waiting("check_await") : \A raw \in RpcOutcomes(c.address) :
     LET h == checkInviteResumed(c, raw, store, now)
     IN (raw.kind = "data" /\ raw.claimed) =>
          /\ c.invite.status \in {NONE, PENDING}
          /\ h.db[c.invite.id].status = USED
          /\ OnlyRowChanged(store, h.db, c.invite.id)
          /\ h.resp.op = "checkInvite" /\ h.resp.code = 200 /\ h.resp.isUsed
          /\ h.resp.invite = h.db[c.invite.id]
          /\ h.resp.invite.secret = c.secret

\* a checkInvite is suspended on a row that is not used, next to another
\* row, and the contract holds its address as claimed
C8_Witness ==
  /\ Len(store) = 2
  /\ \E c \in Waiting("check_await") :
       chain[c.address] /\ store[c.invite.id].status # USED

\* C9: when the oracle reports the address not claimed, checkInvite leaves
\* the table as it is and answers isUsed = false with the status the table
\* holds for the row at that moment.
C9_ReportsCurrentStatus ==
  \A c \in Waiting("check_await") : \A raw \in RpcOutcomes(c.address) :
     LET h == checkInviteResumed(c, raw, store, now)
     IN ~(raw.kind = "data" /\ raw.claimed) =>
          /\ h.db = store
          /\ h.resp.code = 200 /\ ~h.resp.isUsed
          /\ h.resp.invite.status = h.db[c.invite.id].status

\* C10: checkInvite on a used row answers at once (nothing is left
\* suspended, so no oracle call is made) with isUsed and the row as stored,
\* and leaves the table as it is.
C10_UsedShortCircuits ==
  \A i \in RowsWithStatus(store, USED) : \A a \in Addresses :
     checkInvite(store[i].secret, a, store)
       = Ended(store, Resp("checkInvite", 200, TRUE, store[i]))

\* the last response is a checkInvite's isUsed answer carrying a used row
\* that was marked in an earlier second, and nothing is suspended
C10_Witness ==
  /\ out.op = "checkInvite" /\ out.isUsed
  /\ out.invite.updateDate < now
  /\ store[out.invite.id] = out.invite
  /\ inflight = EmptyBag

\* C11: a dispense answers 404 (no invites available) only when the table
\* it leaves holds no row that is none or pending; and when the row a
\* suspended dispense holds is pending, every other row is used and the
\* oracle reports its signer claimed, the dispense marks it used and answers
\* 404.
C11_NoInviteAvailable ==
  /\ (out.op = "getInvite" /\ out.code = 404) =>
       RowsWithStatus(store, NONE) \cup RowsWithStatus(store, PENDING) = {}
  /\ \A c \in Waiting("get_await") : \A raw \in RpcOutcomes(c.invite.signer) :
       LET h == getInviteResumed(c, raw, store, now)
           id == c.invite.id
       IN ( /\ raw.kind = "data" /\ raw.claimed
            /\ store[id].status = PENDING
            /\ \A j \in Ids(store) \ {id} : store[j].status = USED )
          => /\ h.db[id].status = USED
             /\ OnlyRowChanged(store, h.db, id)
             /\ h.resp = Fail("getInvite", 404)

\* the one row was dispensed, a later dispense found its signer claimed,
\* marked it used and answered 404
C11_Witness ==
  /\ out = Fail("getInvite", 404)
  /\ Len(store) = 1 /\ dispensed = <<1>>
  /\ store[1].status = USED /\ chain[store[1].signer]
  /\ inflight = EmptyBag

\* C12: in every reachable state the statistics are the counts of all, of
\* the used and of the pending rows, available is the number of none rows
\* (so it is not negative) and total = used + pending + available; GET
\* /health answers them and leaves the table as it is.
C12_StatsAddUp ==
  LET s == getInviteStats(store)
      h == health(store)
  IN /\ s.total = Len(store)
     /\ s.used = Cardinality(RowsWithStatus(store, USED))
     /\ s.pending = Cardinality(RowsWithStatus(store, PENDING))
     /\ s.available = Cardinality(RowsWithStatus(store, NONE))
     /\ s.available >= 0
     /\ s.total = s.used + s.pending + s.available
     /\ h.invites = s
     /\ h.db = store

\* /health has answered while the table held a none row next to a used one
C12_Witness ==
  /\ out.op = "health"
  /\ RowsWithStatus(store, NONE) # {}
  /\ RowsWithStatus(store, USED) # {}

\* C13: checkInviteOnChain never throws; when the call fails or returns no
\* data it answers the zero address and claimed = false; and it answers
\* claimed = true only when the contract's answer was claimed = true, which
\* the contract gives only for an address it holds as claimed.
C13_AdapterNeverRaises ==
  \A a \in Addresses : \A raw \in RpcOutcomes(a) :
     LET r == checkInviteOnChain(raw)
     IN /\ ~r.threw
        /\ raw.kind \in {"error", "nodata"} =>
             (r.account = ZeroAddress /\ ~r.claimed)
        /\ r.claimed => (raw.kind = "data" /\ raw.claimed /\ chain[a])
        /\ raw.kind = "data" => (r.account = raw.account /\ r.claimed = raw.claimed)

\* every address is claimed on the contract and a checkInvite has answered
\* isUsed = false all the same: its oracle call failed or returned no data
C13_Witness ==
  /\ \A a \in Addresses : chain[a]
  /\ out.op = "checkInvite" /\ out.code = 200 /\ ~out.isUsed
  /\ store[out.invite.id].status # USED

\* C14 as claimed: when the oracle call of a public addInvite fails, the
\* failure does not block the issuance: unless the secret is stored already,
\* the handler answers 201 and the table holds the invite in state none.
C14_IssuanceFailsOpen ==
  \A c \in Waiting("add_await") : \A raw \in RpcOutcomes(c.address) :
     LET h == postAddInviteResumed(c, raw, store, now)
     IN (raw.kind = "error" /\ c.secret \notin StoredSecrets) =>
          /\ h.resp.code = 201
          /\ \E i \in Ids(h.db) :
               h.db[i].secret = c.secret /\ h.db[i].status = NONE

\* C14 as the code has it: when the oracle call of a public addInvite fails
\* (or returns no data), the handler answers 400 and stores nothing.
C14_IssuanceFailsClosed ==
  \A c \in Waiting("add_await") : \A raw \in RpcOutcomes(c.address) :
     LET h == postAddInviteResumed(c, raw, store, now)
     IN raw.kind \in {"error", "nodata"} =>
          h = Ended(store, Fail("addInvite", 400))

\* a public addInvite of a secret that is not stored, for an address that
\* is not claimed, is waiting for its oracle call
C14_Witness ==
  \E c \in Waiting("add_await") :
     /\ c.secret \notin StoredSecrets
     /\ ~chain[c.address]
     /\ Len(store) < MaxInvites

\* C15, the opposite of what is claimed: no none row is taken by branch 1
\* of getNextInvite twice. A row enters `dispensed` when a dispense writes
\* pending into it, and a suspended dispense labelled branch 1 holds the row
\* it took; neither happens twice for one row.
C15_NoDoubleHandOut ==
  /\ \A i, j \in 1..Len(dispensed) : dispensed[i] = dispensed[j] => i = j
  /\ \A c \in Waiting("get_await") : c.branch = 1 =>
       /\ CopiesIn(c, inflight) = 1
       /\ \A d \in Waiting("get_await") :
            (d.branch = 1 /\ d.invite.id = c.invite.id) => d = c

\* C16: no step removes a row or changes the id, secret or signer of a
\* stored row; ids are unique, and a row that a step adds has an id greater
\* than the id of every row stored before.
C16_IdentityKept ==
  [][ /\ Len(store') >= Len(store)
      /\ \A i \in Ids(store) :
           /\ store'[i].id = store[i].id
           /\ store'[i].secret = store[i].secret
           /\ store'[i].signer = store[i].signer
      /\ \A i \in Ids(store') \ Ids(store) : \A j \in Ids(store) :
           store'[i].id > store[j].id
      /\ \A i, j \in Ids(store') : store'[i].id = store'[j].id => i = j
    ]_vars

\* the first row was dispensed and marked used, the second one, issued with
\* another signer, was dispensed after it, and /health has been asked
C16_Witness ==
  /\ Len(store) = 2
  /\ store[1].status = USED /\ store[2].status = PENDING
  /\ store[1].signer # store[2].signer
  /\ dispensed = <<1, 2>>
  /\ out.op = "health"

\* C17: no step changes the updateDate of a stored row without changing its
\* status, and a row that a step adds carries the time of that step.
C17_UpdateDateWithStatus ==
  [][ /\ \A i \in Ids(store) \cap Ids(store') :
           store'[i].updateDate # store[i].updateDate
             => store'[i].status # store[i].status
      /\ \A i \in Ids(store') \ Ids(store) : store'[i].updateDate = now
    ]_vars

\* C18 as claimed: a row is used only if a dispense made it pending before.
C18_UsedWasPending ==
  \A i \in RowsWithStatus(store, USED) :
     \E k \in 1..Len(dispensed) : dispensed[k] = i

\* C18 as the code has it: the only step that takes a row from none
\* straight to used is a checkInvite for the row's secret that answers
\* isUsed; and a row that a dispense marks used was made pending by a
\* dispense before.
C18_OnlyCheckInviteSkipsPending ==
  [][ \A i \in Ids(store) :
        /\ (store[i].status = NONE /\ store'[i].status = USED) =>
             /\ out'.op = "checkInvite" /\ out'.isUsed
             /\ out'.invite.id = i
        /\ (store[i].status # USED /\ store'[i].status = USED
               /\ out'.op = "getInvite") =>
             /\ store[i].status = PENDING
             /\ \E k \in 1..Len(dispensed) : dispensed[k] = i
    ]_vars

\* a checkInvite has answered isUsed for a row that no dispense ever took
C18_Witness ==
  /\ out.op = "checkInvite" /\ out.isUsed
  /\ store[out.invite.id].status = USED
  /\ \A k \in 1..Len(dispensed) : dispensed[k] # out.invite.id
  /\ RowsWithStatus(store, PENDING) # {}

\* C19: a step marks a row used only when the contract holds the row's own
\* signer as claimed (the oracle answers claimed = true for an address only
\* then), never on a failure, on claimed = false or on the claimed answer
\* for another address.
C19_UsedOnlyForOwnSigner ==
  [][ \A i \in Ids(store) :
        (store[i].status # USED /\ store'[i].status = USED)
          => chain[store[i].signer]
    ]_vars

\* C20: in every reachable state every pending row has a smaller id than
\* every none row: a row is made pending only when no row before it is
\* still none.
C20_NoneAfterPending ==
  \A i \in RowsWithStatus(store, NONE) : \A j \in RowsWithStatus(store, PENDING) :
     store[j].id < store[i].id

\* the first row was taken by a dispense that is still waiting for the
\* oracle, the row issued after it is none
C20_Witness ==
  /\ Len(store) = 2 /\ dispensed = <<1>>
  /\ store[1].status = PENDING /\ store[2].status = NONE
  /\ \E c \in Waiting("get_await") : c.branch = 1 /\ c.invite.id = 1

\* C21: when a dispense answers 200, the row it hands out is pending in the
\* table at that moment, and the response carries the row as stored; in
\* particular the table does not hold it as used.
C21_DispensedIsPending ==
  (out.op = "getInvite" /\ out.code = 200) =>
     /\ store[out.invite.id].status = PENDING
     /\ out.invite = store[out.invite.id]

\* ---------------------------------------------------------------- liveness
\* The service as C22 takes it: an operator issues invites, addresses claim
\* on the contract, clients ask for invites, and the oracle is responsive:
\* every oracle call of a dispense is answered with the contract's data,
\* never with a failure or without data.
GetInviteAnswered(c) ==
  /\ BagIn(c, inflight) /\ c.pc = "get_await"
  /\ \E raw \in RpcOutcomes(c.invite.signer) :
       raw.kind = "data" /\ Finish(c, getInviteResumed(c, raw, store, now))

LiveNext ==
  \/ Tick
  \/ \E a \in Addresses : ChainClaim(a)
  \/ \E s \in Secrets, a \in Addresses : AdminAddInvite(TRUE, s, a)
  \/ GetInviteStart
  \/ \E c \in BagToSet(inflight) : GetInviteAnswered(c)

\* the oracle call of a dispense that took row id by the given branch is
\* answered (the row and the branch determine the suspended handler: a
\* pending row keeps the fields it was read with)
GetInviteAnsweredFor(id, branch) ==
  \E c \in BagToSet(inflight) :
     /\ c.invite.id = id /\ c.branch = branch
     /\ GetInviteAnswered(c)

\* Clients keep asking for invites, the responsive oracle answers every
\* call, and Node resumes every handler whose call has been answered.
LiveSpec ==
  /\ Init
  /\ [][LiveNext]_vars
  /\ WF_vars(GetInviteStart)
  /\ \A id \in 1..MaxInvites, branch \in 1..2 :
       WF_vars(GetInviteAnsweredFor(id, branch))

\* C22: with a responsive oracle and dispense called again and again, every
\* pending row whose signer is claimed on the contract is eventually used.
C22_ReconciliationLive ==
  \A i \in 1..MaxInvites :
     (i \in Ids(store) /\ store[i].status = PENDING /\ chain[store[i].signer])
       ~> (i \in Ids(store) /\ store[i].status = USED)

\* row j comes before row i in ORDER BY updateDate ASC (ties by rowid)
Older(db, j, i) ==
  \/ db[j].updateDate < db[i].updateDate
  \/ (db[j].updateDate = db[i].updateDate /\ j < i)

\* row i is pending, its signer is claimed on the contract, and so is the
\* signer of every pending row that comes before it
ClaimedUpTo(i) ==
  /\ i \in Ids(store) /\ store[i].status = PENDING /\ chain[store[i].signer]
  /\ \A j \in RowsWithStatus(store, PENDING) :
       Older(store, j, i) => chain[store[j].signer]

\* C22 as the code has it: with a responsive oracle and dispense called
\* again and again, a pending row whose signer is claimed is eventually used
\* when the signers of all older pending rows are claimed as well (dispense
\* asks the oracle only about the row it selects, the oldest pending one).
C22_OldestClaimedReconciled ==
  \A i \in 1..MaxInvites :
     ClaimedUpTo(i) ~> (i \in Ids(store) /\ store[i].status = USED)

\* both rows are pending and both signers are claimed, and a dispense that
\* selected the older row is waiting for its oracle call
C22_Witness ==
  /\ Len(store) = 2 /\ dispensed = <<1, 2>>
  /\ ClaimedUpTo(1) /\ ClaimedUpTo(2)
  /\ \E c \in Waiting("get_await") : c.branch = 2 /\ c.invite.id = 1

====
